---------------------------- MODULE Spec2Model ----------------------------
(***************************************************************************)
(* The LastExpress debug console (engines/lastexpress/debug.cpp): the      *)
(* stored-command slot (_command, _numParams, _commandParams), the archive *)
(* mount it swaps and restores, and the handlers of the console commands.  *)
(*                                                                         *)
(* A handler is one step: it runs from its entry to its return, and the    *)
(* calls it makes on the way (loadArchive, copyCommand, resetCommand,      *)
(* restoreArchive) are part of that step.  What the engine's collaborators *)
(* answer (can the resolver open a volume, does the file exist, does the   *)
(* allocation succeed, how many frames has the sequence, who wins the      *)
(* fight) is an input of the step, chosen where the code asks for it.      *)
(* The events of the last step are kept in last.log, in program order.     *)
(***************************************************************************)
EXTENDS Integers, Sequences, FiniteSets

VARIABLES
    command,        \* _command: the stored handler, "null" for nullptr
    numParams,      \* _numParams
    commandParams,  \* _commandParams: the strings stored, <<>> for nullptr
    paramsIn,       \* where the strings _commandParams[i] point at live: "own"
                    \* for blocks the debugger allocated, "transport" for the
                    \* buffers of the line that was passed to the handler
    mounted,        \* the CD volume the resource manager has open, 0 for none
    sceneData,      \* the volume whose scene data file is loaded
    chapter,        \* getProgress().chapter
    scene,          \* getState()->scene
    location,       \* getInventory()->get(kItemBeetle)->location
    timeDelta,      \* getState()->timeDelta
    aborted,        \* error() was called: the engine has stopped
    last,           \* the last step: what ran, with which arguments, and its events
    hostpc,         \* where the host's main loop stands
    redrawn,        \* the host has redrawn a frame since the console closed
    loop,           \* where a handler stands in its frame or game loop, when
                    \* the loop is followed turn by turn
    transport       \* what the console's argument buffers hold, where they are
                    \* followed: the tokens of the last line, <<>> once freed

progVars == <<command, numParams, commandParams, paramsIn, mounted, sceneData,
              chapter, scene, location, timeDelta, aborted>>
hostVars == <<hostpc, redrawn, loop, transport>>
vars == <<command, numParams, commandParams, paramsIn, mounted, sceneData, chapter,
          scene, location, timeDelta, aborted, last, hostpc, redrawn, loop, transport>>

---------------------------------------------------------------------------
(* Bounds of the model. *)

\* The longest sequence (and subtitle) the inputs offer, in frames.
MaxFrames == 2

\* The largest chapter number restoreArchive() is tried on.
MaxProbeChapter == 7

\* The largest cd number loadArchive() is tried on.
MaxProbeIndex == 4

---------------------------------------------------------------------------
(* Program constants. *)

kArchiveCd1 == 1
kArchiveCd2 == 2
kArchiveCd3 == 3
kChapter1 == 1
kChapter2 == 2
kChapter3 == 3
kChapter4 == 4
kChapter5 == 5
kFightMilos == 2001
kFightAnna == 2002
kFightIvo == 2003
kFightSalko == 2004
kFightVesna == 2005
kObjectLocation3 == 3
MaxSceneIndex == 2500
MaxTimeDelta == 500
MaxEntityIndex == 39
MaxChapterId == 6

Volumes == {kArchiveCd1, kArchiveCd2, kArchiveCd3}

---------------------------------------------------------------------------
(* Argument strings.  An argument is a sequence of characters, so that the *)
(* conversions the handlers apply to it (strtol, atoi, contains, the cast  *)
(* to uint16) are computed and not assumed.  argv[1] is the command name   *)
(* (argv[0] of the code), kept as a name.                                  *)

Min(a, b) == IF a < b THEN a ELSE b

\* The value of a digit character, 99 for a character that is no digit.
DigitVal(c) ==
    CASE c = "0" -> 0 [] c = "1" -> 1 [] c = "2" -> 2 [] c = "3" -> 3
      [] c = "4" -> 4 [] c = "5" -> 5 [] c = "6" -> 6 [] c = "7" -> 7
      [] c = "8" -> 8 [] c = "9" -> 9
      [] c \in {"a", "A"} -> 10 [] c \in {"b", "B"} -> 11
      [] c \in {"c", "C"} -> 12 [] c \in {"d", "D"} -> 13
      [] c \in {"e", "E"} -> 14 [] c \in {"f", "F"} -> 15
      [] OTHER -> 99

\* strtol's long is kept as four 16-bit words while it is computed (w3 the
\* highest), and an int as two 16-bit halves, so that the range check of the
\* long and the narrowing of the long to int are both computed exactly.
Half == 65536

\* The int whose two's complement halves are hi and lo.
ToInt(acc) ==
    IF acc.hi >= Half \div 2
    THEN (acc.hi - Half) * Half + acc.lo
    ELSE acc.hi * Half + acc.lo

\* -v as an int: the smallest int is its own negation.
NegInt(v) == IF v = (0 - 2147483647) - 1 THEN v ELSE 0 - v

\* One digit more: the magnitude acc times the base plus the digit d, its low
\* 64 bits kept, and whether it went beyond 64 bits.
AddDigit(acc, base, d) ==
    LET p0 == acc.w0 * base + d
        p1 == acc.w1 * base + p0 \div Half
        p2 == acc.w2 * base + p1 \div Half
        p3 == acc.w3 * base + p2 \div Half
    IN  [w3 |-> p3 % Half, w2 |-> p2 % Half, w1 |-> p1 % Half, w0 |-> p0 % Half,
         over |-> acc.over \/ p3 >= Half]

\* The digits of str from position i on, in the given base, up to the first
\* character that is no digit of that base; acc holds the low 64 bits of the
\* magnitude read so far, and acc.over tells that it went beyond 64 bits.
RECURSIVE ParseDigits(_, _, _, _)
ParseDigits(str, i, base, acc) ==
    IF i > Len(str) \/ DigitVal(str[i]) >= base
    THEN acc
    ELSE ParseDigits(str, i + 1, base, AddDigit(acc, base, DigitVal(str[i])))

\* isspace() in the "C" locale: space, \t, \n, \f, \r and the vertical tab
\* (character 11, written as itself: a string has no escape for it).
isspace(c) == c \in {" ", "\t", "\n", "\f", "\r", ""}

RECURSIVE SkipSpace(_, _)
SkipSpace(str, i) ==
    IF i <= Len(str) /\ isspace(str[i]) THEN SkipSpace(str, i + 1) ELSE i

\* The numeral at position i of str has the prefix 0x or 0X of base 16.
HexPrefix(str, base, i) ==
    /\ base \in {0, 16}
    /\ i + 2 <= Len(str)
    /\ str[i] = "0"
    /\ str[i + 1] \in {"x", "X"}
    /\ DigitVal(str[i + 2]) < 16

\* The base the numeral at position i is read in: base 0 takes it from the
\* numeral's prefix.
BaseOf(str, base, i) ==
    IF base # 0 THEN base
    ELSE IF HexPrefix(str, base, i) THEN 16
    ELSE IF i <= Len(str) /\ str[i] = "0" THEN 8
    ELSE 10

\* The magnitude of the numeral at position i of str.
Magnitude(str, base, i) ==
    ParseDigits(str, IF HexPrefix(str, base, i) THEN i + 2 ELSE i, BaseOf(str, base, i),
                [w3 |-> 0, w2 |-> 0, w1 |-> 0, w0 |-> 0, over |-> FALSE])

\* The long of magnitude m and the given sign, cast to int: LONG_MAX or
\* LONG_MIN (low 32 bits -1 and 0) when the value is beyond the long's range,
\* and otherwise the low 32 bits of the value.
LongToInt(neg, m) ==
    IF neg
    THEN IF \/ m.over
            \/ m.w3 > Half \div 2
            \/ m.w3 = Half \div 2 /\ (m.w2 # 0 \/ m.w1 # 0 \/ m.w0 # 0)
         THEN 0
         ELSE NegInt(ToInt([hi |-> m.w1, lo |-> m.w0]))
    ELSE IF m.over \/ m.w3 >= Half \div 2
         THEN 0 - 1
         ELSE ToInt([hi |-> m.w1, lo |-> m.w0])

\* strtol from position i, where the white space ends: an optional sign,
\* then the numeral.
StrtolFrom(str, base, i) ==
    LongToInt(i <= Len(str) /\ str[i] = "-",
              Magnitude(str, base,
                        IF i <= Len(str) /\ str[i] \in {"-", "+"} THEN i + 1 ELSE i))

\* (int)strtol(str, nullptr, base) for base 0, 8, 10 or 16, where long has 64
\* bits.
Strtol(str, base) == StrtolFrom(str, base, SkipSpace(str, 1))

getNumber(arg) == Strtol(arg, 0)

atoi(arg) == Strtol(arg, 10)

\* Common::String::contains(char)
contains(str, c) == \E i \in 1..Len(str) : str[i] = c

\* The cast (uint16)x
uint16(x) == x % 65536


---------------------------------------------------------------------------
(* The inputs the model offers. *)

tA == <<"A">>
tAnis == <<"A", ".", "n", "i", "s">>
t0 == <<"0">>
t1 == <<"1">>
t2 == <<"2">>
t3 == <<"3">>
t4 == <<"4">>
t5 == <<"5">>
t6 == <<"6">>
t7 == <<"7">>
t40 == <<"4", "0">>
t250 == <<"2", "5", "0">>
t501 == <<"5", "0", "1">>
tm5 == <<"-", "5">>
t2000 == <<"2", "0", "0", "0">>
t2001 == <<"2", "0", "0", "1">>
t2002 == <<"2", "0", "0", "2">>
t2003 == <<"2", "0", "0", "3">>
t2004 == <<"2", "0", "0", "4">>
t2005 == <<"2", "0", "0", "5">>
t2501 == <<"2", "5", "0", "1">>
tWrap1 == <<"4", "2", "9", "4", "9", "6", "7", "2", "9", "7">>
tWrap3 == <<"4", "2", "9", "4", "9", "6", "7", "2", "9", "9">>
\* A numeral beyond the range of a 64-bit long.
tHuge == <<"9", "9", "9", "9", "9", "9", "9", "9", "9", "9",
           "9", "9", "9", "9", "9", "9", "9", "9", "9", "9">>
t500 == <<"5", "0", "0">>
tStar == <<"*">>
tSt == <<"s", "t">>

\* The volume arguments: a valid one, and one outside 1..3.
VolTokens == {t2}
BadVolTokens == {t4}

\* The well-formed lines typed at the console, per command: the name, the
\* arguments, and with or without each volume argument.
WithVolume(name, firsts, vols) ==
    {<<name>> \o f : f \in firsts} \cup {<<name>> \o f \o <<v>> : f \in firsts, v \in vols}

LinesShowFrame == WithVolume("showframe", {<<tA, t1>>}, VolTokens)
LinesShowBg == WithVolume("showbg", {<<tA>>}, VolTokens)
LinesPlaySeq == WithVolume("playseq", {<<tA>>}, VolTokens)
LinesPlaySnd == WithVolume("playsnd", {<<tA>>}, VolTokens)
LinesPlaySbe == WithVolume("playsbe", {<<tA>>}, VolTokens)
LinesPlayNis == WithVolume("playnis", {<<tAnis>>, <<t5>>}, VolTokens)
LinesLoadScene == WithVolume("loadscene", {<<t1>>, <<t2501>>}, VolTokens)
LinesListFiles == WithVolume("ls", {<<tStar>>}, VolTokens)
LinesFight == {<<"fight", i>> : i \in {t2001, t2002, t2003, t2004, t2005}}
LinesBeetle == {<<"beetle">>}
LinesSwitchChapter == {<<"chapter", t3>>}

\* The scenes, beetle locations and chapters a run may start in.
SceneValues == {5, 9}
LocationValues == {1, kObjectLocation3}
ChapterValues == {kChapter1, kChapter2, kChapter4}
TimeDeltaValues == {3}

\* What the two allocations of copyCommand may answer.
MallocOutcomes == {"ok", "noarray", "nostring"}

\* No CD volume is attached to the resource manager.
NoVolume == 0

\* What the resource manager can do during one handler: the volumes it can
\* open, and whether a volume it cannot open leaves the volume attached
\* before in place or leaves none attached.  A handler asks for at most two
\* volumes, the one it loads and the one it restores, so one missing volume
\* at a time shows every outcome.
Resolvers ==
    {[open |-> Volumes, keeps |-> TRUE]}
        \cup {[open |-> Volumes \ {v}, keeps |-> k] : v \in Volumes, k \in BOOLEAN}

\* What loading a sequence (or a subtitle) may answer: it does not load, or it
\* loads and has count frames.
SequenceInputs ==
    {[loads |-> FALSE, count |-> 0]} \cup {[loads |-> TRUE, count |-> c] : c \in 0..MaxFrames}

\* The handlers that never ask the resolver get one (unused) value.
ResolversIf(asked) == IF asked THEN Resolvers ELSE {[open |-> Volumes, keeps |-> TRUE]}

---------------------------------------------------------------------------
(* The program state as a value, and the events a handler leaves. *)

Cur ==
    [command |-> command, numParams |-> numParams,
     commandParams |-> commandParams, paramsIn |-> paramsIn, mounted |-> mounted,
     sceneData |-> sceneData, chapter |-> chapter, scene |-> scene,
     location |-> location, timeDelta |-> timeDelta, aborted |-> aborted,
     log |-> <<>>, exit |-> FALSE]

Ev(e, v) == [e |-> e, v |-> v]

\* No handler is inside a loop that is followed turn by turn.
NoLoop == [at |-> "idle"]

Log(s, evs) == [s EXCEPT !.log = @ \o evs]

\* The handler returns ret: the step ends here. The record of the step keeps
\* the volume that was mounted when the step began.
Return(s, op, name, argv, ret) ==
    /\ command' = s.command
    /\ numParams' = s.numParams
    /\ commandParams' = s.commandParams
    /\ paramsIn' = s.paramsIn
    /\ mounted' = s.mounted
    /\ sceneData' = s.sceneData
    /\ chapter' = s.chapter
    /\ scene' = s.scene
    /\ location' = s.location
    /\ timeDelta' = s.timeDelta
    /\ aborted' = s.aborted
    /\ last' = [op |-> op, cmd |-> name, argv |-> argv, log |-> s.log,
                ret |-> ret, exit |-> s.exit, from |-> mounted]

---------------------------------------------------------------------------
(* Collaborators of the debugger. *)

\* ResourceManager::loadArchive(index): attaches the volume, or fails; what is
\* attached after a failure is the resource manager's business: the volume
\* attached before, or none.
ResourceManager_loadArchive(s, index, res) ==
    IF index \in res.open
    THEN [ok |-> TRUE, s |-> Log([s EXCEPT !.mounted = index], <<Ev("mount", index)>>)]
    ELSE [ok |-> FALSE,
          s |-> Log([s EXCEPT !.mounted = IF res.keeps THEN @ ELSE NoVolume],
                    <<Ev("mountfail", index)>>)]

\* SceneManager::loadSceneDataFile(index)
loadSceneDataFile(s, index) ==
    Log([s EXCEPT !.sceneData = index], <<Ev("scenedata", index)>>)

\* GUI::Debugger::cmdExit: detaches the console.
cmdExit(s) == Log([s EXCEPT !.exit = TRUE], <<Ev("exit", 0)>>)

\* Logic::switchChapter: the chapter-transition logic, run on the chapter set.
switchChapter(s) == Log(s, <<Ev("switchChapter", s.chapter)>>)

---------------------------------------------------------------------------
(* Helper functions of the debugger. *)

\* A hasCommand() that never sees the pending command.
hasCommandNever(s) == FALSE

hasCommand(s) == s.numParams # 0

resetCommand(s) ==
    Log([s EXCEPT !.command = "null", !.commandParams = <<>>, !.numParams = 0],
        <<Ev("reset", IF s.commandParams # <<>>
                      THEN Min(s.numParams, Len(s.commandParams)) ELSE 0)>>)

\* A copyCommand() that keeps the pointers it was given: the array holds the
\* transport's strings, not copies of them.
copyCommandShallow(s, argv, m) ==
    CASE m = "noarray" ->
           Log([s EXCEPT !.commandParams = <<>>], <<Ev("nomem", 0)>>)
      [] OTHER ->
           cmdExit(Log([s EXCEPT !.commandParams = argv, !.numParams = Len(argv),
                                 !.paramsIn = "transport"],
                       <<Ev("copy", Len(argv))>>))

\* The array is allocated, then one block per string, and each string is
\* copied into its block.  m = "noarray": the array is not allocated,
\* m = "nostring": a block is not, and error() stops the engine.
copyCommand(s, argv, m) ==
    CASE m = "noarray" ->
           Log([s EXCEPT !.commandParams = <<>>], <<Ev("nomem", 0)>>)
      [] m = "nostring" ->
           Log([s EXCEPT !.commandParams = <<>>, !.numParams = Len(argv),
                         !.aborted = TRUE], <<Ev("error", 0)>>)
      [] OTHER ->
           cmdExit(Log([s EXCEPT !.commandParams = argv, !.numParams = Len(argv),
                                 !.paramsIn = "own"],
                       <<Ev("copy", Len(argv))>>))

\* A loadArchive() that drops the resolver's answer, as restoreArchive() does.
loadArchiveUnchecked(s, index, res) ==
    IF index < 1 \/ index > 3
    THEN [ok |-> FALSE, s |-> Log(s, <<Ev("badcd", index)>>)]
    ELSE LET r == ResourceManager_loadArchive(s, index, res)
         IN  [ok |-> TRUE, s |-> loadSceneDataFile(r.s, index)]

loadArchive(s, index, res) ==
    IF index < 1 \/ index > 3
    THEN [ok |-> FALSE, s |-> Log(s, <<Ev("badcd", index)>>)]
    ELSE LET r == ResourceManager_loadArchive(s, index, res)
         IN  IF ~r.ok THEN r
             ELSE [ok |-> TRUE, s |-> loadSceneDataFile(r.s, index)]

\* A switch whose kChapter3 case falls through to the third volume.
RestoreIndexChapter3OnCd3(c) ==
    CASE c = kChapter1 -> kArchiveCd1
      [] c = kChapter2 -> kArchiveCd2
      [] c \in {kChapter3, kChapter4, kChapter5} -> kArchiveCd3
      [] OTHER -> kArchiveCd1

\* The volume restoreArchive() selects.
RestoreIndex(c) ==
    CASE c = kChapter1 -> kArchiveCd1
      [] c \in {kChapter2, kChapter3} -> kArchiveCd2
      [] c \in {kChapter4, kChapter5} -> kArchiveCd3
      [] OTHER -> kArchiveCd1

restoreArchive(s, res) ==
    LET index == RestoreIndex(s.chapter)
        r == ResourceManager_loadArchive(Log(s, <<Ev("restore", index)>>), index, res)
    IN  loadSceneDataFile(r.s, index)

\* "_command = WRAP_METHOD(Debugger, <name>); copyCommand(argc, argv);"
storeCommand(s, name, argv, m) ==
    copyCommand(Log([s EXCEPT !.command = name], <<Ev("store", 0)>>), argv, m)

\* "... return cmdExit(0, nullptr);", which error() in copyCommand never reaches.
storeAndExit(s, name, argv, m) ==
    LET c == storeCommand(s, name, argv, m)
    IN  IF c.aborted THEN c ELSE cmdExit(c)

\* The archive a handler loads when it was given a volume argument.
loadArchiveIf(given, s, arg, res) ==
    IF given THEN loadArchive(s, getNumber(arg), res) ELSE [ok |-> TRUE, s |-> s]

restoreArchiveIf(given, s, res) ==
    IF given THEN restoreArchive(s, res) ELSE s

---------------------------------------------------------------------------
(* Debugger commands. *)

cmdShowFrame(s, argv, op, mem) ==
    LET argc == Len(argv)
        Done(t, ret) == Return(t, op, "showframe", argv, ret)
    IN
    IF argc = 3 \/ argc = 4 THEN
        \E res \in ResolversIf(argc = 4) :
            LET a == loadArchiveIf(argc = 4, s, IF argc = 4 THEN argv[4] ELSE <<>>, res)
            IN
            IF ~a.ok THEN Done(a.s, TRUE)
            ELSE \E found \in BOOLEAN :
                IF ~found THEN Done(Log(a.s, <<Ev("nofile", 0)>>), TRUE)
                ELSE IF ~hasCommand(a.s) THEN
                    \E m \in mem :
                        Done(storeAndExit(a.s, "showframe", argv, m), FALSE)
                ELSE \E seq \in SequenceInputs :
                    LET b == Log(a.s, <<Ev("body", 0)>>)
                        loads == seq.loads
                        count == seq.count
                        index == uint16(getNumber(argv[3]))
                    IN
                    IF loads /\ index >= count THEN
                        Done(resetCommand(Log(b, <<Ev("clearBg", 0), Ev("badframe", index)>>)),
                             TRUE)
                    ELSE
                        LET c == IF loads
                                 THEN Log(b, <<Ev("clearBg", 0), Ev("draw", index),
                                               Ev("redraw", 0)>>)
                                 ELSE b
                        IN  Done(restoreArchiveIf(argc = 4, resetCommand(c), res), TRUE)
    ELSE Done(Log(s, <<Ev("usage", 0)>>), TRUE)


cmdShowBg(s, argv, op, mem) ==
    LET argc == Len(argv)
        Done(t, ret) == Return(t, op, "showbg", argv, ret)
    IN
    IF argc = 2 \/ argc = 3 THEN
        \E res \in ResolversIf(argc = 3) :
            LET a == loadArchiveIf(argc = 3, s, IF argc = 3 THEN argv[3] ELSE <<>>, res)
            IN
            IF ~a.ok THEN Done(a.s, TRUE)
            ELSE \E found \in BOOLEAN :
                IF ~found THEN Done(Log(a.s, <<Ev("nofile", 0)>>), TRUE)
                ELSE IF ~hasCommand(a.s) THEN
                    \E m \in mem :
                        Done(storeAndExit(a.s, "showbg", argv, m), FALSE)
                ELSE \E background \in BOOLEAN :
                    LET b == Log(a.s, <<Ev("body", 0), Ev("clearBg", 0)>>)
                        c == IF background THEN Log(b, <<Ev("draw", 0)>>) ELSE b
                        d == restoreArchiveIf(argc = 3, Log(c, <<Ev("redraw", 0)>>), res)
                    IN  Done(resetCommand(d), TRUE)
    ELSE Done(Log(s, <<Ev("usage", 0)>>), TRUE)

\* The frames 0..n-1 the sequence player draws, each followed by a redraw.
PlayedFrames(n) == [i \in 1..n |-> Ev("draw", i - 1)]

cmdPlaySeq(s, argv, op, mem) ==
    LET argc == Len(argv)
        Done(t, ret) == Return(t, op, "playseq", argv, ret)
    IN
    IF argc = 2 \/ argc = 3 THEN
        \E res \in ResolversIf(argc = 3) :
            LET a == loadArchiveIf(argc = 3, s, IF argc = 3 THEN argv[3] ELSE <<>>, res)
            IN
            IF ~a.ok THEN Done(a.s, TRUE)
            ELSE \E found \in BOOLEAN :
                IF ~found THEN Done(Log(a.s, <<Ev("nofile", 0)>>), TRUE)
                ELSE IF ~hasCommand(a.s) THEN
                    \E m \in mem :
                        Done(storeAndExit(a.s, "playseq", argv, m), FALSE)
                ELSE \E seq \in SequenceInputs :
                    LET b == Log(a.s, <<Ev("body", 0)>>)
                        loads == seq.loads
                        count == seq.count
                    IN
                    IF loads /\ count = 0 THEN Done(Log(b, <<Ev("noframes", 0)>>), FALSE)
                    ELSE IF loads THEN
                        \* rclick = k: the k-th poll answers a right-button release
                        \E rclick \in 0..count :
                            LET n == IF rclick = 0 THEN count ELSE rclick
                                c == Log(b, PlayedFrames(n) \o
                                            (IF rclick = 0 THEN <<>>
                                             ELSE <<Ev("rclick", rclick)>>))
                            IN  Done(restoreArchiveIf(argc = 3, resetCommand(c), res), TRUE)
                    ELSE Done(restoreArchiveIf(argc = 3, resetCommand(b), res), TRUE)
    ELSE Done(Log(s, <<Ev("usage", 0)>>), TRUE)

cmdPlaySnd(s, argv, op, mem) ==
    LET argc == Len(argv)
        Done(t, ret) == Return(t, op, "playsnd", argv, ret)
    IN
    IF argc = 2 \/ argc = 3 THEN
        \E res \in ResolversIf(argc = 3) :
            LET a == loadArchiveIf(argc = 3, s, IF argc = 3 THEN argv[3] ELSE <<>>, res)
            IN
            IF ~a.ok THEN Done(a.s, TRUE)
            ELSE \E found \in BOOLEAN :
                IF ~found THEN Done(Log(a.s, <<Ev("nofile", 0)>>), TRUE)
                ELSE Done(restoreArchiveIf(argc = 3, Log(a.s, <<Ev("sound", 0)>>), res), TRUE)
    ELSE Done(Log(s, <<Ev("usage", 0)>>), TRUE)

cmdPlaySbe(s, argv, op, mem) ==
    LET argc == Len(argv)
        Done(t, ret) == Return(t, op, "playsbe", argv, ret)
    IN
    IF argc = 2 \/ argc = 3 THEN
        \E res \in ResolversIf(argc = 3) :
            LET a == loadArchiveIf(argc = 3, s, IF argc = 3 THEN argv[3] ELSE <<>>, res)
            IN
            IF ~a.ok THEN Done(a.s, TRUE)
            ELSE \E found \in BOOLEAN :
                IF ~found THEN Done(Log(a.s, <<Ev("nofile", 0)>>), TRUE)
                ELSE IF ~hasCommand(a.s) THEN
                    \E m \in mem :
                        Done(storeAndExit(a.s, "playsbe", argv, m), FALSE)
                \* shown: the subtitle frames drawn before the loop ends (the
                \* maximum time is reached, no event is polled, or a right click)
                ELSE \E sub \in SequenceInputs :
                    LET b == Log(a.s, <<Ev("body", 0)>>)
                        c == IF sub.loads THEN Log(b, PlayedFrames(sub.count)) ELSE b
                    IN  Done(resetCommand(restoreArchiveIf(argc = 3, c, res)), TRUE)
    ELSE Done(Log(s, <<Ev("usage", 0)>>), TRUE)

cmdPlayNis(s, argv, op, mem) ==
    LET argc == Len(argv)
        Done(t, ret) == Return(t, op, "playnis", argv, ret)
    IN
    IF argc = 2 \/ argc = 3 THEN
        \E res \in ResolversIf(argc = 3) :
            LET a == loadArchiveIf(argc = 3, s, IF argc = 3 THEN argv[3] ELSE <<>>, res)
                name == argv[2]
            IN
            IF ~a.ok THEN Done(a.s, TRUE)
            ELSE \E found \in (IF contains(name, ".") THEN BOOLEAN ELSE {TRUE}) :
                IF contains(name, ".") /\ ~found THEN Done(Log(a.s, <<Ev("nofile", 0)>>), TRUE)
                ELSE IF ~hasCommand(a.s) THEN
                    \E m \in mem :
                        Done(storeAndExit(a.s, "playnis", argv, m), FALSE)
                ELSE \E loads \in (IF contains(name, ".") THEN BOOLEAN ELSE {TRUE}) :
                    LET b == Log([a.s EXCEPT !.numParams = 0], <<Ev("body", 0)>>)
                        c == IF contains(name, ".")
                             THEN (IF loads THEN Log(b, <<Ev("animation", 0)>>) ELSE b)
                             ELSE Log(b, <<Ev("playAnimation", atoi(name))>>)
                    IN  Done(resetCommand(restoreArchiveIf(argc = 3, c, res)), TRUE)
    ELSE Done(Log(s, <<Ev("usage", 0)>>), TRUE)

cmdLoadScene(s, argv, op, mem) ==
    LET argc == Len(argv)
        Done(t, ret) == Return(t, op, "loadscene", argv, ret)
    IN
    IF argc = 2 \/ argc = 3 THEN
        \E res \in ResolversIf(argc = 3) :
            LET index == getNumber(argv[2])
                a == loadArchiveIf(argc = 3, s, IF argc = 3 THEN argv[3] ELSE <<>>, res)
            IN
            IF ~a.ok THEN Done(a.s, TRUE)
            ELSE IF index > MaxSceneIndex THEN Done(Log(a.s, <<Ev("badindex", index)>>), TRUE)
            ELSE IF ~hasCommand(a.s) THEN
                \E m \in mem :
                    Done(storeAndExit(a.s, "loadscene", argv, m), FALSE)
            ELSE \E sceneLoads \in BOOLEAN :
                LET b == Log(a.s, <<Ev("body", 0), Ev("clearBg", 0)>>)
                IN
                IF ~sceneLoads THEN Done(resetCommand(Log(b, <<Ev("noscene", index)>>)), TRUE)
                ELSE
                    LET c == Log(b, <<Ev("drawScene", index), Ev("redraw", 0)>>)
                    IN  Done(resetCommand(restoreArchiveIf(argc = 3, c, res)), TRUE)
    ELSE Done(Log(s, <<Ev("usage", 0)>>), TRUE)

\* The volume that holds a fight's data, 0 for no fight of that id.
FightArchive(type) ==
    CASE type = kFightMilos -> kArchiveCd1
      [] type = kFightAnna -> kArchiveCd2
      [] type \in {kFightIvo, kFightSalko, kFightVesna} -> kArchiveCd3
      [] OTHER -> 0

cmdFight(s, argv, op, mem) ==
    LET argc == Len(argv)
        Done(t, ret) == Return(t, op, "fight", argv, ret)
    IN
    IF argc = 2 /\ FightArchive(getNumber(argv[2])) # 0 THEN
        \E res \in Resolvers :
            LET type == getNumber(argv[2])
                index == FightArchive(type)
                a == loadArchive(s, index, res)
            IN
            IF ~a.ok THEN Done(Log(a.s, <<Ev("loadfail", index)>>), TRUE)
            ELSE IF ~hasCommand(a.s) THEN
                \E m \in mem :
                    Done(storeCommand(a.s, "fight", argv, m), FALSE)
            ELSE \E lost \in BOOLEAN :
                LET b == Log([a.s EXCEPT !.numParams = 0],
                             <<Ev("body", 0), Ev("clearBg", 0), Ev("redraw", 0)>>)
                    lastScene == b.scene
                    \* the fight runs on the volume mounted now
                    c == Log(b, <<Ev("fight", b.mounted),
                                  Ev(IF lost THEN "lost" ELSE "won", type)>>)
                    d == restoreArchive(c, res)
                    e == Log(d, <<Ev("stopAllSound", 0), Ev("clearBg", 0),
                                  Ev("drawScene", lastScene), Ev("redraw", 0)>>)
                IN  Done(resetCommand(e), TRUE)
    ELSE Done(Log(s, <<Ev("usage", 0)>>), TRUE)


\* How the beetle game ends (the first event that clears playgame: the escape
\* key or a catch), and where it leaves the beetle. The inner while goes on
\* handling the queued events after playgame is cleared, so a release that
\* catches the beetle may move it behind an escape as well.
BeetleEnds ==
    {[how |-> h, location |-> l] : h \in {"escape", "caught"}, l \in LocationValues}

\* "Save current state" of the beetle command
beetleSave(s) == [scene |-> s.scene, location |-> s.location, chapter |-> s.chapter]

\* "Setup scene & inventory"
beetleSetup(s) == [s EXCEPT !.chapter = kChapter2, !.location = kObjectLocation3]

\* A restore that puts the chapter back and forgets the beetle.
beetleRestoreChapterOnly(s, previous) ==
    [s EXCEPT !.chapter = previous.chapter]

\* "Restore state"
beetleRestore(s, previous) ==
    [s EXCEPT !.chapter = previous.chapter, !.location = previous.location]

cmdBeetle(s, argv, op, mem) ==
    LET argc == Len(argv)
        Done(t, ret) == Return(t, op, "beetle", argv, ret)
    IN
    IF argc = 1 THEN
        \E res \in Resolvers :
            LET a == loadArchive(s, kArchiveCd2, res)
            IN
            IF ~a.ok THEN Done(Log(a.s, <<Ev("loadfail", kArchiveCd2)>>), TRUE)
            ELSE IF ~hasCommand(a.s) THEN
                \E m \in mem :
                    Done(storeCommand(a.s, "beetle", argv, m), FALSE)
            \* the game loop ends on the escape key or when the beetle is caught
            ELSE \E end \in BeetleEnds :
                LET b == Log(a.s, <<Ev("body", 0), Ev("clearBg", 0), Ev("redraw", 0)>>)
                    previous == beetleSave(b)
                    c == Log(beetleSetup(b), <<Ev("redraw", 0)>>)
                    d == Log([c EXCEPT !.location = end.location],
                             <<Ev("game", c.chapter), Ev(end.how, end.location)>>)
                    e == restoreArchive(beetleRestore(d, previous), res)
                    f == Log(e, <<Ev("stopAllSound", 0), Ev("clearBg", 0),
                                  Ev("drawScene", previous.scene), Ev("redraw", 0)>>)
                IN  Done(resetCommand(f), TRUE)
    ELSE Done(Log(s, <<Ev("usage", 0)>>), TRUE)

\* A cmdSwitchChapter that runs the transition logic before it sets the chapter.
cmdSwitchChapterLate(s, argv, op, mem) ==
    LET argc == Len(argv)
        Done(t, ret) == Return(t, op, "chapter", argv, ret)
    IN
    IF argc = 2 /\ ~(getNumber(argv[2]) <= 1 \/ getNumber(argv[2]) > MaxChapterId) THEN
        LET id == getNumber(argv[2])
        IN
        IF ~hasCommand(s) THEN
            \E m \in mem :
                Done(storeCommand(s, "chapter", argv, m), FALSE)
        ELSE
            LET b == switchChapter(Log(s, <<Ev("body", 0)>>))
            IN  Done(resetCommand([b EXCEPT !.chapter = id - 1]), TRUE)
    ELSE Done(Log(s, <<Ev("usage", 0)>>), TRUE)

cmdSwitchChapter(s, argv, op, mem) ==
    LET argc == Len(argv)
        Done(t, ret) == Return(t, op, "chapter", argv, ret)
    IN
    IF argc = 2 /\ ~(getNumber(argv[2]) <= 1 \/ getNumber(argv[2]) > MaxChapterId) THEN
        LET id == getNumber(argv[2])
        IN
        IF ~hasCommand(s) THEN
            \E m \in mem :
                Done(storeCommand(s, "chapter", argv, m), FALSE)
        ELSE
            LET b == Log([s EXCEPT !.chapter = id - 1], <<Ev("body", 0)>>)
            IN  Done(resetCommand(switchChapter(b)), TRUE)
    ELSE Done(Log(s, <<Ev("usage", 0)>>), TRUE)

cmdListFiles(s, argv, op, mem) ==
    LET argc == Len(argv)
        Done(t, ret) == Return(t, op, "ls", argv, ret)
    IN
    IF argc = 2 \/ argc = 3 THEN
        \E res \in ResolversIf(argc = 3) :
            LET a == loadArchiveIf(argc = 3, s, IF argc = 3 THEN argv[3] ELSE <<>>, res)
            IN
            IF ~a.ok THEN Done(a.s, TRUE)
            ELSE Done(restoreArchiveIf(argc = 3, Log(a.s, <<Ev("list", a.s.mounted)>>), res),
                      TRUE)
    ELSE Done(Log(s, <<Ev("usage", 0)>>), TRUE)

\* OUTPUT_ARCHIVE_FILES on the files from position i on: reset the resolver,
\* load the file (0 stands for HD.HPF and DEMO.HPF, which are no CD volume),
\* list it. failAt = i: a member of the i-th file gives no stream.
RECURSIVE dumpArchives(_, _, _, _, _)
dumpArchives(s, files, i, failAt, res) ==
    IF i > Len(files) THEN [ok |-> TRUE, s |-> s]
    ELSE
        LET t == Log([s EXCEPT !.mounted = IF files[i] \in res.open THEN files[i]
                                          ELSE NoVolume],
                     <<Ev("dump", files[i])>>)
        IN  IF failAt = i THEN [ok |-> FALSE, s |-> Log(t, <<Ev("nostream", files[i])>>)]
            ELSE dumpArchives(t, files, i + 1, failAt, res)

cmdDumpFiles(s, argv, op, mem) ==
    LET argc == Len(argv)
        Done(t, ret) == Return(t, op, "dump", argv, ret)
    IN
    IF argc = 1 THEN
        \E res \in Resolvers, isDemo \in BOOLEAN :
            LET files == IF isDemo THEN <<0>> ELSE <<0, kArchiveCd1, kArchiveCd2, kArchiveCd3>>
            IN  \E failAt \in 0..Len(files) :
                    Done(restoreArchive(dumpArchives(s, files, 1, failAt, res).s, res), TRUE)
    ELSE Done(Log(s, <<Ev("usage", 0)>>), TRUE)

cmdTimeDelta(s, argv, op, mem) ==
    LET argc == Len(argv)
        Done(t, ret) == Return(t, op, "delta", argv, ret)
    IN
    IF argc = 2 /\ ~(getNumber(argv[2]) <= 0 \/ getNumber(argv[2]) > MaxTimeDelta)
    THEN Done([s EXCEPT !.timeDelta = getNumber(argv[2])], TRUE)
    ELSE Done(Log(s, <<Ev("usage", 0)>>), TRUE)

cmdTime(s, argv, op, mem) ==
    LET argc == Len(argv)
        Done(t, ret) == Return(t, op, "time", argv, ret)
    IN
    IF argc = 2 /\ ~(getNumber(argv[2]) < 0)
    THEN Done(Log(s, <<Ev("time", getNumber(argv[2]))>>), TRUE)
    ELSE Done(Log(s, <<Ev("usage", 0)>>), TRUE)

\* The options of the show command.
ShowOptions ==
    {<<"s", "t", "a", "t", "e">>, <<"s", "t">>,
     <<"p", "r", "o", "g", "r", "e", "s", "s">>, <<"p", "r">>,
     <<"f", "l", "a", "g", "s">>, <<"f", "l">>,
     <<"i", "n", "v", "e", "n", "t", "o", "r", "y">>, <<"i", "n", "v">>,
     <<"o", "b", "j", "e", "c", "t", "s">>, <<"o", "b", "j">>,
     <<"s", "a", "v", "e", "p", "o", "i", "n", "t", "s">>, <<"p", "t">>,
     <<"s", "c", "e", "n", "e">>, <<"s", "c">>}

cmdShow(s, argv, op, mem) ==
    LET argc == Len(argv)
        Done(t, ret) == Return(t, op, "show", argv, ret)
    IN
    IF argc = 2 /\ argv[2] \in ShowOptions
    THEN Done(Log(s, <<Ev("output", 0)>>), TRUE)
    ELSE Done(Log(s, <<Ev("usage", 0)>>), TRUE)

cmdEntity(s, argv, op, mem) ==
    LET argc == Len(argv)
        Done(t, ret) == Return(t, op, "entity", argv, ret)
    IN
    IF argc = 2 /\ ~(getNumber(argv[2]) > MaxEntityIndex)
    THEN Done(Log(s, <<Ev("output", getNumber(argv[2]))>>), TRUE)
    ELSE Done(Log(s, <<Ev("usage", 0)>>), TRUE)

cmdClear(s, argv, op, mem) ==
    LET argc == Len(argv)
        Done(t, ret) == Return(t, op, "clear", argv, ret)
    IN
    IF argc = 1
    THEN Done(Log(s, <<Ev("clearBg", 0), Ev("redraw", 0)>>), TRUE)
    ELSE Done(Log(s, <<Ev("usage", 0)>>), TRUE)

cmdHelp(s, argv, op, mem) ==
    Return(Log(s, <<Ev("output", 0)>>), op, "help", argv, TRUE)

---------------------------------------------------------------------------
(* The command table, the console's dispatch and the stored command's call. *)

CommandNames ==
    {"help", "ls", "dump", "showframe", "showbg", "playseq", "playsnd", "playsbe",
     "playnis", "loadscene", "fight", "beetle", "delta", "time", "show", "entity",
     "chapter", "clear"}

\* Calls the handler registered under name. mem is what the allocations of
\* copyCommand may answer, should the handler store itself.
Invoke(name, s, argv, op, mem) ==
    CASE name = "help" -> cmdHelp(s, argv, op, mem)
      [] name = "ls" -> cmdListFiles(s, argv, op, mem)
      [] name = "dump" -> cmdDumpFiles(s, argv, op, mem)
      [] name = "showframe" -> cmdShowFrame(s, argv, op, mem)
      [] name = "showbg" -> cmdShowBg(s, argv, op, mem)
      [] name = "playseq" -> cmdPlaySeq(s, argv, op, mem)
      [] name = "playsnd" -> cmdPlaySnd(s, argv, op, mem)
      [] name = "playsbe" -> cmdPlaySbe(s, argv, op, mem)
      [] name = "playnis" -> cmdPlayNis(s, argv, op, mem)
      [] name = "loadscene" -> cmdLoadScene(s, argv, op, mem)
      [] name = "fight" -> cmdFight(s, argv, op, mem)
      [] name = "beetle" -> cmdBeetle(s, argv, op, mem)
      [] name = "delta" -> cmdTimeDelta(s, argv, op, mem)
      [] name = "time" -> cmdTime(s, argv, op, mem)
      [] name = "show" -> cmdShow(s, argv, op, mem)
      [] name = "entity" -> cmdEntity(s, argv, op, mem)
      [] name = "chapter" -> cmdSwitchChapter(s, argv, op, mem)
      [] name = "clear" -> cmdClear(s, argv, op, mem)

\* The console hands a line's tokens to the handler of its first token.
dispatch(argv, mem) ==
    IF argv[1] \in CommandNames
    THEN Invoke(argv[1], Cur, argv, "dispatch", mem)
    ELSE Return(Log(Cur, <<Ev("unknown", 0)>>), "dispatch", "null", argv, TRUE)

\* The argc and argv callCommand() passes: _numParams strings, each read
\* where its pointer leads: in its own block, or in the transport's buffers as
\* they are now (an empty string where they hold nothing any more).
StoredArgs ==
    IF paramsIn = "own"
    THEN SubSeq(commandParams, 1, numParams)
    ELSE [i \in 1..numParams |->
              IF i <= Len(transport) THEN transport[i]
              ELSE IF i = 1 THEN "" ELSE <<>>]

callCommand ==
    IF command # "null"
    THEN Invoke(command, Cur, StoredArgs, "pump", {"ok"})
    ELSE Return(Cur, "pump", "null", <<>>, TRUE)


---------------------------------------------------------------------------
(* The state after construction, and the steps. *)

InitWith(chapters, scenes, locations) ==
    /\ command = "null"
    /\ numParams = 0
    /\ commandParams = <<>>
    /\ paramsIn = "own"
    /\ chapter \in chapters
    /\ mounted = RestoreIndex(chapter)
    /\ sceneData = RestoreIndex(chapter)
    /\ scene \in scenes
    /\ location \in locations
    /\ timeDelta \in TimeDeltaValues
    /\ aborted = FALSE
    /\ last = [op |-> "init", cmd |-> "null", argv |-> <<>>, log |-> <<>>,
               ret |-> TRUE, exit |-> FALSE, from |-> mounted]
    /\ hostpc = "console"
    /\ redrawn = FALSE
    /\ loop = NoLoop
    /\ transport = <<>>

\* The engine runs a chapter with its volume mounted; the console is open.
Init == InitWith(ChapterValues, {5}, {1})

\* One line typed at the console, from the given lines; mem is what the
\* allocations of copyCommand may answer.
Console(lines, mem) == ~aborted /\ \E argv \in lines : dispatch(argv, mem)

\* One line of a known command typed at the console: the handler registered for
\* it is called with the line's tokens.

ListFiles ==
    /\ ~aborted
    /\ \E argv \in LinesListFiles : cmdListFiles(Cur, argv, "dispatch", MallocOutcomes)
    /\ UNCHANGED hostVars
ShowFrame ==
    /\ ~aborted
    /\ \E argv \in LinesShowFrame : cmdShowFrame(Cur, argv, "dispatch", MallocOutcomes)
    /\ UNCHANGED hostVars
ShowBg ==
    /\ ~aborted
    /\ \E argv \in LinesShowBg : cmdShowBg(Cur, argv, "dispatch", MallocOutcomes)
    /\ UNCHANGED hostVars
PlaySeq ==
    /\ ~aborted
    /\ \E argv \in LinesPlaySeq : cmdPlaySeq(Cur, argv, "dispatch", MallocOutcomes)
    /\ UNCHANGED hostVars
PlaySnd ==
    /\ ~aborted
    /\ \E argv \in LinesPlaySnd : cmdPlaySnd(Cur, argv, "dispatch", MallocOutcomes)
    /\ UNCHANGED hostVars
PlaySbe ==
    /\ ~aborted
    /\ \E argv \in LinesPlaySbe : cmdPlaySbe(Cur, argv, "dispatch", MallocOutcomes)
    /\ UNCHANGED hostVars
PlayNis ==
    /\ ~aborted
    /\ \E argv \in LinesPlayNis : cmdPlayNis(Cur, argv, "dispatch", MallocOutcomes)
    /\ UNCHANGED hostVars
LoadScene ==
    /\ ~aborted
    /\ \E argv \in LinesLoadScene : cmdLoadScene(Cur, argv, "dispatch", MallocOutcomes)
    /\ UNCHANGED hostVars
Fight ==
    /\ ~aborted
    /\ \E argv \in LinesFight : cmdFight(Cur, argv, "dispatch", MallocOutcomes)
    /\ UNCHANGED hostVars
Beetle ==
    /\ ~aborted
    /\ \E argv \in LinesBeetle : cmdBeetle(Cur, argv, "dispatch", MallocOutcomes)
    /\ UNCHANGED hostVars
SwitchChapter ==
    /\ ~aborted
    /\ \E argv \in LinesSwitchChapter : cmdSwitchChapter(Cur, argv, "dispatch", MallocOutcomes)
    /\ UNCHANGED hostVars

\* The host calls callCommand().
Pump == ~aborted /\ callCommand /\ UNCHANGED hostVars

\* Commands of every kind (immediate and deferred, with and without a volume
\* argument, with a fixed volume, without any) and the stored command's
\* call, in any order.
Next ==
    \/ ListFiles \/ PlaySnd
    \/ ShowFrame \/ PlaySeq \/ LoadScene
    \/ Fight \/ Beetle
    \/ SwitchChapter
    \/ Pump

Spec == Init /\ [][Next]_vars

\* Every command that stores itself for the next frame, and the stored
\* command's call, in any order.
NextDeferred ==
    \/ ShowFrame \/ ShowBg \/ PlaySeq \/ PlaySbe \/ PlayNis \/ LoadScene
    \/ Fight \/ Beetle
    \/ SwitchChapter
    \/ Pump

\* The engine runs chapter 1; the chapter command leads to the other chapters.
InitDeferred == InitWith({kChapter1}, {5}, {1})

SpecDeferred == InitDeferred /\ [][NextDeferred]_vars


---------------------------------------------------------------------------
(* What the last step did, read from its events. *)

Deferrable ==
    {"showframe", "showbg", "playseq", "playsbe", "playnis", "loadscene", "fight",
     "beetle", "chapter"}

\* The commands that take a volume argument, and the argc that has it.
VolumeArgc ==
    [c \in {"ls", "showframe", "showbg", "playseq", "playsnd", "playsbe", "playnis",
            "loadscene"} |-> IF c = "showframe" THEN 4 ELSE 3]

Has(l, e) == \E i \in DOMAIN l.log : l.log[i].e = e

\* The position of the first event e of the step, 0 when it has none.
Pos(l, e) ==
    IF Has(l, e) THEN CHOOSE i \in DOMAIN l.log :
                          l.log[i].e = e /\ \A j \in 1..(i - 1) : l.log[j].e # e
    ELSE 0

Handled(l) == l.op \in {"dispatch", "pump"} /\ l.cmd \in CommandNames

\* The handler took its "Store command" branch and the copy was made.
Stored(l) == Handled(l) /\ Has(l, "store") /\ Has(l, "copy")

\* The handler took its second-phase branch.
RanBody(l) == Handled(l) /\ Has(l, "body")

Drew(l) == \E i \in DOMAIN l.log : l.log[i].e \in {"draw", "drawScene", "clearBg", "redraw"}

\* The console was told to close: cmdExit() was called, or the handler returned false.
ExitSignalled(l) == l.exit \/ ~l.ret

---------------------------------------------------------------------------
(* C1: a deferrable command dispatched while no command is pending leaves   *)
(* hasCommand() true and tells the console to exit, draws nothing, and      *)
(* leaves the mounted volume, the scene data, the chapter, the scene and    *)
(* the beetle's location as they were before the dispatch.  Stated for the  *)
(* dispatches whose copy of the arguments was allocated.                    *)
C1_FirstInvocationOnlyStores ==
    [][(/\ numParams = 0
        /\ last'.op = "dispatch"
        /\ last'.cmd \in Deferrable
        /\ Stored(last'))
       => (/\ numParams' # 0
           /\ ExitSignalled(last')
           /\ ~Drew(last')
           /\ mounted' = mounted
           /\ sceneData' = sceneData
           /\ chapter' = chapter
           /\ scene' = scene
           /\ location' = location)]_vars

(* C2: after callCommand() has run a stored command, no command is pending, *)
(* whatever the outcome of the run.                                         *)
C2_PumpClearsPending ==
    (last.op = "pump" /\ last.cmd \in Deferrable /\ last.argv # <<>> /\ ~aborted)
        => (numParams = 0 /\ command = "null")

(* C3: a command given a volume argument that ends without deferring itself *)
(* leaves the default volume of the current chapter mounted.  Stated for    *)
(* the runs in which the resolver opened every volume it was asked for.     *)
C3_VolumeRestoredOnEveryReturn ==
    (/\ Handled(last)
     /\ last.cmd \in DOMAIN VolumeArgc
     /\ Len(last.argv) = VolumeArgc[last.cmd]
     /\ ~Has(last, "store")
     /\ ~Has(last, "mountfail")
     /\ ~aborted)
        => mounted = RestoreIndex(chapter)

(* C4: the first callCommand() after a store runs the second phase of the   *)
(* stored handler with the stored arguments, and a callCommand() that       *)
(* follows another callCommand() with no dispatch in between runs no body   *)
(* and draws nothing.                                                       *)
C4_EffectExactlyOnce ==
    [][(last'.op = "pump")
       => (/\ Stored(last) => (RanBody(last') /\ last'.argv = commandParams)
           /\ last.op = "pump" => (~RanBody(last') /\ ~Drew(last')))]_vars

---------------------------------------------------------------------------
(* The host loop: the console reads lines until a handler closes it, the    *)
(* frame is redrawn, a pending command is run, and the console comes back.  *)

HostLines ==
    LinesShowFrame \cup LinesPlaySeq \cup LinesLoadScene \cup LinesFight \cup LinesBeetle
        \cup LinesSwitchChapter \cup LinesListFiles \cup LinesPlaySnd

HostDispatch ==
    /\ hostpc = "console"
    /\ Console(HostLines, MallocOutcomes)
    /\ hostpc' = IF ExitSignalled(last') THEN "frame" ELSE "console"
    /\ redrawn' = FALSE
    /\ UNCHANGED <<loop, transport>>

HostRedraw ==
    /\ hostpc = "frame"
    /\ ~aborted
    /\ hostpc' = "pump"
    /\ redrawn' = TRUE
    /\ UNCHANGED <<progVars, last, loop, transport>>

HostPump ==
    /\ hostpc = "pump"
    /\ ~aborted
    /\ IF hasCommand(Cur) THEN callCommand ELSE UNCHANGED <<progVars, last>>
    /\ hostpc' = "console"
    /\ UNCHANGED <<redrawn, loop, transport>>

NextHost == HostDispatch \/ HostRedraw \/ HostPump

SpecHost == Init /\ [][NextHost]_vars

(* C5: under the host loop, every run of a handler's second phase happens   *)
(* in callCommand(), after a redraw that followed the console's exit, and   *)
(* never inside a console dispatch.                                         *)
C5_BodyOnlyAfterRedraw ==
    RanBody(last) => (last.op = "pump" /\ redrawn)

---------------------------------------------------------------------------
(* C6: between handlers, a handler is stored exactly when stored arguments  *)
(* exist, allocation failure in copyCommand() included.                     *)
C6_HandlerIffArguments ==
    ~aborted => ((command # "null") <=> (numParams # 0))

---------------------------------------------------------------------------
(* restoreArchive() on its own: any chapter number, any volume mounted.     *)

ProbeChapters == (0 - 1)..MaxProbeChapter

InitFn ==
    /\ command = "null"
    /\ numParams = 0
    /\ commandParams = <<>>
    /\ paramsIn = "own"
    /\ chapter \in ProbeChapters
    /\ mounted \in Volumes
    /\ sceneData \in Volumes
    /\ scene = 5
    /\ location = 1
    /\ timeDelta = 3
    /\ aborted = FALSE
    /\ last = [op |-> "init", cmd |-> "null", argv |-> <<>>, log |-> <<>>,
               ret |-> TRUE, exit |-> FALSE, from |-> mounted]
    /\ hostpc = "console"
    /\ redrawn = FALSE
    /\ loop = NoLoop
    /\ transport = <<>>

RestoreArchive ==
    /\ \E res \in Resolvers :
           Return(restoreArchive(Cur, res), "restoreArchive", "null", <<>>, TRUE)
    /\ UNCHANGED hostVars

ProbeIndexes == (0 - 1)..MaxProbeIndex

\* loadArchive(index) on its own; the step's first event records the index.
LoadArchive ==
    /\ \E index \in ProbeIndexes, res \in Resolvers :
           LET a == loadArchive(Log(Cur, <<Ev("loadArchive", index)>>), index, res)
           IN  Return(a.s, "loadArchive", "null", <<>>, a.ok)
    /\ UNCHANGED hostVars

NextFn == RestoreArchive \/ LoadArchive

SpecFn == InitFn /\ [][NextFn]_vars

\* The volume the last restoreArchive() asked the resolver for.
RestoredVolume == last.log[Pos(last, "restore")].v

(* C7: the volume restoreArchive() selects depends on the chapter alone:    *)
(* chapter 1 gives volume 1, chapters 2 and 3 volume 2, chapters 4 and 5    *)
(* volume 3, any other number volume 1.                                     *)
C7_RestoreVolumeByChapter ==
    last.op = "restoreArchive"
        => /\ chapter = 1 => RestoredVolume = 1
           /\ chapter \in {2, 3} => RestoredVolume = 2
           /\ chapter \in {4, 5} => RestoredVolume = 3
           /\ chapter \notin 1..5 => RestoredVolume = 1
           /\ sceneData = RestoredVolume

\* Chapter 3 restored on volume 2, which the resolver opened.
C7_Witness_Chapter3 ==
    /\ last.op = "restoreArchive"
    /\ chapter = 3
    /\ RestoredVolume = 2
    /\ mounted = 2
    /\ Has(last, "mount")

---------------------------------------------------------------------------
(* The commands with an interactive second phase, from every chapter, scene *)
(* and beetle location.                                                     *)

InitStage == InitWith(kChapter1..kChapter5, SceneValues, LocationValues)

NextStage == Fight \/ Beetle \/ PlaySeq \/ Pump

SpecStage == InitStage /\ [][NextStage]_vars

\* The value of the step's first event e.
Val(l, e) == l.log[Pos(l, e)].v

(* C8: the beetle command's second phase leaves the scene index, the        *)
(* beetle's inventory location and the chapter as they were before it,      *)
(* whether the game ended on the escape key or on a catch.                  *)
C8_BeetleRoundTrip ==
    [][(last'.cmd = "beetle" /\ RanBody(last'))
       => (/\ scene' = scene
           /\ location' = location
           /\ chapter' = chapter
           /\ Val(last', "drawScene") = scene)]_vars

\* The game ran in chapter 2 with the beetle caught and moved to location 1, and
\* the command returned to chapter 4 with the beetle back at location 3.
C8_Witness_CaughtInChapter4 ==
    /\ last.cmd = "beetle"
    /\ RanBody(last)
    /\ Has(last, "caught")
    /\ Val(last, "game") = 2
    /\ Val(last, "caught") = 1
    /\ chapter = 4
    /\ location = 3

---------------------------------------------------------------------------
\* The fight the step's argument names.
FightOf(l) == getNumber(l.argv[2])

FoughtOn(l) ==
    /\ FightOf(l) = 2001 => Val(l, "fight") = 1
    /\ FightOf(l) = 2002 => Val(l, "fight") = 2
    /\ FightOf(l) \in {2003, 2004, 2005} => Val(l, "fight") = 3

(* C9: the fight runs on the volume that owns it (Milos 1, Anna 2, Ivo,     *)
(* Salko and Vesna 3); whether it is won or lost, the default volume of the *)
(* current chapter is mounted afterwards, the scene that was current before *)
(* is redrawn and the pending command is cleared.                           *)
C9_FightLeavesDefaultMounted ==
    [][(last'.cmd = "fight" /\ RanBody(last'))
       => (/\ FoughtOn(last')
           /\ mounted' = RestoreIndex(chapter')
           /\ Val(last', "drawScene") = scene
           /\ numParams' = 0
           /\ command' = "null")]_vars

---------------------------------------------------------------------------
\* The step's interactive loop was cancelled by the user.
Cancelled(l) ==
    \/ l.cmd = "playseq" /\ RanBody(l) /\ Has(l, "rclick")
    \/ l.cmd = "beetle" /\ RanBody(l) /\ Has(l, "escape")

\* The cancelled step had an archive to restore.
MustRestore(l) == l.cmd = "beetle" \/ Len(l.argv) = VolumeArgc[l.cmd]

(* C10: a playseq interrupted by a right-button release and a beetle game   *)
(* ended by the escape key still leave the default volume of the chapter    *)
(* mounted (playseq: when it was given a volume), still restore the beetle  *)
(* command's chapter and location, and still clear the pending command.     *)
C10_CancelLeavesDefaultMounted ==
    [][Cancelled(last')
       => (/\ MustRestore(last') => mounted' = RestoreIndex(chapter')
           /\ chapter' = chapter
           /\ location' = location
           /\ numParams' = 0
           /\ command' = "null")]_vars

---------------------------------------------------------------------------
(* The commands that check their arguments, on lines with good and bad      *)
(* arguments.                                                               *)

LinesTimeDelta ==
    {<<"delta">>, <<"delta", t250, t1>>}
        \cup {<<"delta", i>> : i \in {t0, t1, t250, t500, t501, tm5, tWrap1, tHuge}}

TimeDelta ==
    /\ ~aborted
    /\ \E argv \in LinesTimeDelta : cmdTimeDelta(Cur, argv, "dispatch", MallocOutcomes)
    /\ UNCHANGED hostVars

\* The token is a decimal numeral as a user writes one: digits only, no leading zero.
PlainNumeral(tok) ==
    /\ Len(tok) >= 1
    /\ \A i \in 1..Len(tok) : DigitVal(tok[i]) < 10
    /\ Len(tok) = 1 \/ tok[1] # "0"

\* The number a plain numeral of a few digits denotes.
RECURSIVE Decimal(_)
Decimal(tok) ==
    IF tok = <<>> THEN 0
    ELSE 10 * Decimal(SubSeq(tok, 1, Len(tok) - 1)) + DigitVal(tok[Len(tok)])

\* The token denotes a number of lo..hi (hi below 10000).
TypedInRange(tok, lo, hi) ==
    PlainNumeral(tok) /\ Len(tok) <= 4 /\ Decimal(tok) \in lo..hi

\* The step was the console's call of the handler of cmd.
Dispatched(l, cmd) == l.op = "dispatch" /\ l.cmd = cmd

(* C11: delta sets the time-scale factor to its argument when that is one   *)
(* argument denoting a number of 1..500; for any other number and any other *)
(* argument count it prints the usage text and leaves the factor as it was; *)
(* it never stores a command.                                               *)
C11_DeltaAcceptsExactly1To500 ==
    [][Dispatched(last', "delta")
       => (/\ command' = command
           /\ numParams' = numParams
           /\ commandParams' = commandParams
           /\ IF Len(last'.argv) = 2 /\ TypedInRange(last'.argv[2], 1, 500)
              THEN timeDelta' = Decimal(last'.argv[2]) /\ ~Has(last', "usage")
              ELSE timeDelta' = timeDelta /\ Has(last', "usage"))]_vars

LinesChapterIds ==
    {<<"chapter">>} \cup {<<"chapter", i>> : i \in {t1, t2, t3, t6, t7, tWrap3}}

ChapterIds ==
    /\ ~aborted
    /\ \E argv \in LinesChapterIds : cmdSwitchChapter(Cur, argv, "dispatch", MallocOutcomes)
    /\ UNCHANGED hostVars

(* C12: chapter dispatched with no command pending (and the copy of its     *)
(* arguments allocated) leaves the chapter as it was; with one argument     *)
(* denoting an id of 2..6 it stores itself and tells the console to exit;   *)
(* with any other id or argument count it prints the usage text and stores  *)
(* nothing.                                                                 *)
C12_ChapterAcceptsExactly2To6 ==
    [][(/\ Dispatched(last', "chapter")
        /\ numParams = 0
        /\ ~Has(last', "nomem")
        /\ ~aborted')
       => (/\ chapter' = chapter
           /\ IF Len(last'.argv) = 2 /\ TypedInRange(last'.argv[2], 2, 6)
              THEN /\ numParams' # 0
                   /\ command' = "chapter"
                   /\ commandParams' = last'.argv
                   /\ ExitSignalled(last')
                   /\ ~Has(last', "usage")
              ELSE /\ Has(last', "usage")
                   /\ numParams' = 0
                   /\ command' = command)]_vars

LinesLoadSceneArgs ==
    {<<"loadscene">>, <<"loadscene", t1>>, <<"loadscene", t2501>>,
     <<"loadscene", t2501, t2>>, <<"loadscene", t1, t4>>}

LoadSceneArgs ==
    /\ ~aborted
    /\ \E argv \in LinesLoadSceneArgs : cmdLoadScene(Cur, argv, "dispatch", MallocOutcomes)
    /\ UNCHANGED hostVars

LinesFightArgs == {<<"fight">>, <<"fight", t2000>>, <<"fight", t2001>>}

FightArgs ==
    /\ ~aborted
    /\ \E argv \in LinesFightArgs : cmdFight(Cur, argv, "dispatch", MallocOutcomes)
    /\ UNCHANGED hostVars

LinesPlaySndArgs ==
    {<<"playsnd">>, <<"playsnd", tA, t0>>, <<"playsnd", tA, t4>>, <<"playsnd", tA, t2>>}

PlaySndArgs ==
    /\ ~aborted
    /\ \E argv \in LinesPlaySndArgs : cmdPlaySnd(Cur, argv, "dispatch", MallocOutcomes)
    /\ UNCHANGED hostVars

\* The handler reported an argument error: the usage text, an invalid cd
\* number, an invalid scene index.
ArgumentError(l) == Has(l, "usage") \/ Has(l, "badcd") \/ Has(l, "badindex")

(* C13: a dispatch that reports an argument error changes nothing: the      *)
(* mounted volume, the scene data, the stored command, the chapter and the  *)
(* time-scale factor are as before.                                         *)
C13_ArgumentErrorChangesNothing ==
    [][(last'.op = "dispatch" /\ ArgumentError(last'))
       => (/\ mounted' = mounted
           /\ sceneData' = sceneData
           /\ command' = command
           /\ numParams' = numParams
           /\ commandParams' = commandParams
           /\ chapter' = chapter
           /\ timeDelta' = timeDelta)]_vars

NextArgs == TimeDelta \/ ChapterIds \/ LoadSceneArgs \/ FightArgs \/ PlaySndArgs \/ Pump

SpecArgs == Init /\ [][NextArgs]_vars

---------------------------------------------------------------------------
(* C14: under the host loop, every console dispatch starts with no command  *)
(* pending.                                                                 *)
C14_DispatchStartsIdle ==
    [][(hostpc = "console" /\ last'.op = "dispatch") => numParams = 0]_vars

(* C15: callCommand() with no command pending invokes no handler and       *)
(* changes nothing: the stored command, the mounted volume, the scene data  *)
(* and the chapter are as before and nothing is drawn or printed.           *)
C15_PumpWhenIdleIsNoOp ==
    [][(last'.op = "pump" /\ numParams = 0)
       => (/\ last'.cmd = "null"
           /\ last'.log = <<>>
           /\ command' = command
           /\ numParams' = numParams
           /\ commandParams' = commandParams
           /\ mounted' = mounted
           /\ sceneData' = sceneData
           /\ chapter' = chapter)]_vars

---------------------------------------------------------------------------
(* C16: loadArchive(index) returns true exactly when index is one of 1..3   *)
(* and the resolver opened that volume; then the scene data of that volume  *)
(* is loaded.  When it returns false no scene data was loaded, and for an   *)
(* index outside 1..3 the resolver was not asked.                           *)
C16_LoadArchiveContract ==
    [][last'.op = "loadArchive"
       => LET index == Val(last', "loadArchive")
              opened == Has(last', "mount")
              asked == opened \/ Has(last', "mountfail")
          IN  /\ last'.ret <=> (index \in 1..3 /\ opened)
              /\ opened => Val(last', "mount") = index
              /\ last'.ret => (/\ Has(last', "scenedata")
                               /\ Val(last', "scenedata") = index
                               /\ sceneData' = index
                               /\ Pos(last', "mount") < Pos(last', "scenedata"))
              /\ ~last'.ret => (~Has(last', "scenedata") /\ sceneData' = sceneData)
              /\ index \notin 1..3 => ~asked
              /\ index \in 1..3 => asked]_vars

\* loadArchive(2) failed at the resolver and volume 1's scene data stayed.
C16_Witness_ResolverRefused ==
    /\ last.op = "loadArchive"
    /\ ~last.ret
    /\ Val(last, "loadArchive") = 2
    /\ Has(last, "mountfail")
    /\ sceneData = 1

---------------------------------------------------------------------------
(* The archive restore: which volume is mounted after restoreArchive().     *)

(* C17: after restoreArchive() the mounted volume is the default volume of  *)
(* the chapter current at the call, whatever volume was mounted before.     *)
C17_RestoreMountsChapterDefault ==
    [][Has(last', "restore") => mounted' = RestoreIndex(chapter')]_vars

---------------------------------------------------------------------------
(* The stored arguments between the two phases, with the console's own      *)
(* argument buffers followed: they hold the tokens of the line being        *)
(* dispatched, are overwritten by the next line and may be freed once the   *)
(* handler has returned.                                                    *)

LinesTransport == LinesShowFrame \cup LinesSwitchChapter \cup LinesListFiles

\* The console parses a line into its buffers and hands them to the handler.
TransportLine ==
    /\ ~aborted
    /\ \E argv \in LinesTransport :
           /\ dispatch(argv, MallocOutcomes)
           /\ transport' = argv
    /\ UNCHANGED <<hostpc, redrawn, loop>>

\* The console frees its buffers.
TransportFree ==
    /\ ~aborted
    /\ transport # <<>>
    /\ transport' = <<>>
    /\ UNCHANGED <<progVars, last, hostpc, redrawn, loop>>

NextTransport == TransportLine \/ TransportFree \/ Pump

SpecTransport == Init /\ [][NextTransport]_vars

(* C18: the stored arguments are an owned deep copy. After a store that got *)
(* its memory, the stored pointers lead to the count and the strings the    *)
(* handler was given, in their order; while the command stays pending they  *)
(* lead to the same strings after every step, whether the step overwrites   *)
(* the console's buffers with another line or frees them; the handler       *)
(* callCommand() invokes for a pending command receives exactly those, and  *)
(* a pump that follows the store receives the arguments of the stored line. *)
C18_StoredArgumentsAreOwnedCopy ==
    [][/\ Stored(last') =>
              /\ numParams' = Len(last'.argv)
              /\ StoredArgs' = last'.argv
       /\ (numParams # 0 /\ numParams' # 0) => StoredArgs' = StoredArgs
       /\ (last'.op = "pump" /\ numParams # 0) => last'.argv = StoredArgs
       /\ (last'.op = "pump" /\ Stored(last)) => last'.argv = last.argv]_vars

\* "showframe A 1 2" was stored, "ls * 2" was then typed into the console's
\* buffers, and the pump ran the showframe's body with its own three
\* arguments and the command's name.
C18_Witness_ShowFramePumped ==
    /\ last.op = "pump"
    /\ last.cmd = "showframe"
    /\ last.argv = <<"showframe", tA, t1, t2>>
    /\ RanBody(last)
    /\ transport = <<"ls", tStar, t2>>

---------------------------------------------------------------------------
(* The order of the steps of a second phase.                                *)

\* The events of restoreArchive().
RestoreEvents == {"restore", "mount", "mountfail", "scenedata"}

(* C19: in a second phase the clearing of the pending command is the last   *)
(* step, and no handler clears the pending command before it has restored   *)
(* the archive.                                                             *)
C19_ClearIsLastStep ==
    [][(RanBody(last') /\ Has(last', "reset")) =>
          /\ Pos(last', "reset") = Len(last'.log)
          /\ Has(last', "restore") => Pos(last', "restore") < Pos(last', "reset")]_vars

---------------------------------------------------------------------------
(* Stores and the pending command.                                          *)

\* The number of "Store command" branches the step took.
Stores(l) == Cardinality({i \in DOMAIN l.log : l.log[i].e = "store"})

(* C20: a handler stores a command only when hasCommand() is false, and at  *)
(* most once in a step; a command that is pending before and after a step   *)
(* keeps its handler, its argument count and its arguments.                 *)
C20_StoreOnlyWhenIdle ==
    [][/\ Has(last', "store") => (numParams = 0 /\ Stores(last') = 1)
       /\ (numParams # 0 /\ numParams' # 0) =>
              /\ command' = command
              /\ numParams' = numParams
              /\ commandParams' = commandParams]_vars

\* "playseq" was typed while "showframe A 1" was pending: it stored nothing
\* and the pending command is still the showframe.
C20_Witness_SecondCommandNotStored ==
    /\ last.op = "dispatch"
    /\ last.cmd = "playseq"
    /\ RanBody(last)
    /\ ~Has(last, "store")
    /\ command = "showframe"
    /\ numParams = 3
    /\ commandParams = <<"showframe", tA, t1>>

---------------------------------------------------------------------------
(* The immediate commands, typed while idle and while a command is pending. *)

Immediate ==
    {"help", "ls", "dump", "playsnd", "delta", "time", "show", "entity", "clear"}

LinesListFilesOn == WithVolume("ls", {<<tStar>>}, {t1, t2, t3, t4})
LinesHelp == {<<"help">>, <<"help", tA>>}
LinesDumpFiles == {<<"dump">>, <<"dump", tA>>}
LinesTime == {<<"time">>, <<"time", t40>>, <<"time", tm5>>}
LinesShow == {<<"show">>, <<"show", tSt>>, <<"show", tA>>}
LinesEntity == {<<"entity">>, <<"entity", t1>>, <<"entity", t40>>}
LinesClear == {<<"clear">>, <<"clear", t1>>}

ListFilesOn ==
    /\ ~aborted
    /\ \E argv \in LinesListFilesOn : cmdListFiles(Cur, argv, "dispatch", MallocOutcomes)
    /\ UNCHANGED hostVars
Help ==
    /\ ~aborted
    /\ \E argv \in LinesHelp : cmdHelp(Cur, argv, "dispatch", MallocOutcomes)
    /\ UNCHANGED hostVars
DumpFiles ==
    /\ ~aborted
    /\ \E argv \in LinesDumpFiles : cmdDumpFiles(Cur, argv, "dispatch", MallocOutcomes)
    /\ UNCHANGED hostVars
Time ==
    /\ ~aborted
    /\ \E argv \in LinesTime : cmdTime(Cur, argv, "dispatch", MallocOutcomes)
    /\ UNCHANGED hostVars
Show ==
    /\ ~aborted
    /\ \E argv \in LinesShow : cmdShow(Cur, argv, "dispatch", MallocOutcomes)
    /\ UNCHANGED hostVars
Entity ==
    /\ ~aborted
    /\ \E argv \in LinesEntity : cmdEntity(Cur, argv, "dispatch", MallocOutcomes)
    /\ UNCHANGED hostVars
Clear ==
    /\ ~aborted
    /\ \E argv \in LinesClear : cmdClear(Cur, argv, "dispatch", MallocOutcomes)
    /\ UNCHANGED hostVars

NextImmediate ==
    \/ Help \/ ListFilesOn \/ DumpFiles \/ PlaySnd \/ TimeDelta \/ Time \/ Show
    \/ Entity \/ Clear \/ ShowFrame \/ Pump

SpecImmediate == Init /\ [][NextImmediate]_vars

\* The step was an immediate command typed at the console.
TypedImmediate(l) == l.op = "dispatch" /\ l.cmd \in Immediate

\* The step was "ls <filter> <volume>" with a volume number in 1..3.
ListedOn(l) ==
    /\ l.op = "dispatch"
    /\ l.cmd = "ls"
    /\ Len(l.argv) = 3
    /\ getNumber(l.argv[3]) \in 1..3

\* An immediate command leaves the pending slot alone and the console open.
ImmediateKeepsSlot ==
    TypedImmediate(last') =>
        /\ ~Has(last', "store")
        /\ ~ExitSignalled(last')
        /\ command' = command
        /\ numParams' = numParams
        /\ commandParams' = commandParams

\* "ls <filter>" lists from the volume that is mounted and leaves it mounted.
ListKeepsVolume ==
    (last'.op = "dispatch" /\ last'.cmd = "ls" /\ Len(last'.argv) = 2) =>
        /\ mounted' = mounted
        /\ Has(last', "list")
        /\ Val(last', "list") = mounted

(* C21: an immediate command never stores a pending command and never tells *)
(* the console to exit; ls without a volume leaves the mounted volume as it *)
(* is; ls with a volume in 1..3 lists from that volume and returns with the *)
(* default volume of the current chapter mounted.                           *)
C21_ImmediateCommands ==
    [][/\ ImmediateKeepsSlot
       /\ ListKeepsVolume
       /\ ListedOn(last') =>
              /\ Has(last', "list")
              /\ Val(last', "list") = getNumber(last'.argv[3])
              /\ mounted' = RestoreIndex(chapter')]_vars

---------------------------------------------------------------------------
(* The second phase of the chapter command.                                 *)

\* How many times the step did e.
Count(l, e) == Cardinality({i \in DOMAIN l.log : l.log[i].e = e})

(* C22: when the stored chapter command, with an id in 2..6, is pumped, the *)
(* chapter is id - 1 when the chapter-transition logic is called, the logic *)
(* is called once, the pending command is cleared after it, and the handler *)
(* asks for no volume and restores none.                                    *)
C22_ChapterSecondPhase ==
    [][(last'.op = "pump" /\ last'.cmd = "chapter" /\ numParams # 0) =>
          LET l == last'
              id == getNumber(l.argv[2])
          IN  /\ id \in 2..6
              /\ l.log = <<Ev("body", 0), Ev("switchChapter", id - 1), Ev("reset", 2)>>
              /\ Count(l, "switchChapter") = 1
              /\ command' = "null"
              /\ numParams' = 0
              /\ commandParams' = <<>>
              /\ \A i \in DOMAIN l.log : l.log[i].e \notin RestoreEvents
              /\ mounted' = mounted
              /\ sceneData' = sceneData]_vars

\* "chapter 6" was stored in chapter 1 and pumped: the transition logic ran on
\* chapter 5 with volume 1 still mounted.
C22_Witness_Chapter6Pumped ==
    /\ last.op = "pump"
    /\ last.cmd = "chapter"
    /\ last.argv = <<"chapter", t6>>
    /\ Has(last, "switchChapter")
    /\ Val(last, "switchChapter") = kChapter5
    /\ chapter = kChapter5
    /\ mounted = kArchiveCd1
    /\ numParams = 0

---------------------------------------------------------------------------
(* The frame loop of playseq and the game loop of beetle, turn by turn.     *)
(* The handler's working state is kept in loop.s from the entry of the loop *)
(* to the handler's return, which publishes it.                             *)

\* The longest sequence the frame loop is followed on, in frames.
MaxLoopFrames == 3

\* The most events one turn of the beetle game finds queued.
MaxBatch == 2

\* SequenceFrame::nextFrame(): the player moves to the next frame, or answers
\* false on the last one.
nextFrame(player) ==
    IF player.frame + 1 < player.count
    THEN [ok |-> TRUE, player |-> [player EXCEPT !.frame = @ + 1]]
    ELSE [ok |-> FALSE, player |-> player]

\* What pollEvent() answers in the frame loop: no event, a right-button
\* release, another event.
SeqEvents == {"none", "rbuttonup", "keydown"}

\* playseq typed at the console while no loop is running.
PlaySeqTyped ==
    /\ loop = NoLoop
    /\ PlaySeq

\* callCommand() with playseq as the stored command, up to the entry of the
\* frame loop or to the return that comes before it: the archive does not
\* load, the file is not found, the sequence has no frame (these three leave
\* the command pending), or the sequence does not load.
PlaySeqEnter ==
    /\ loop = NoLoop
    /\ ~aborted
    /\ command = "playseq"
    /\ LET argv == StoredArgs
           argc == Len(argv)
           Done(t, ret) == /\ Return(t, "pump", "playseq", argv, ret)
                           /\ loop' = loop
       IN
       IF argc = 2 \/ argc = 3 THEN
           \E res \in ResolversIf(argc = 3) :
               LET a == loadArchiveIf(argc = 3, Cur, IF argc = 3 THEN argv[3] ELSE <<>>, res)
               IN
               IF ~a.ok THEN Done(a.s, TRUE)
               ELSE \E found \in BOOLEAN :
                   IF ~found THEN Done(Log(a.s, <<Ev("nofile", 0)>>), TRUE)
                   ELSE IF ~hasCommand(a.s) THEN
                       Done(storeAndExit(a.s, "playseq", argv, "ok"), FALSE)
                   ELSE \E loads \in BOOLEAN, count \in 0..MaxLoopFrames :
                       LET b == Log(a.s, <<Ev("body", 0)>>)
                       IN
                       IF loads /\ count = 0 THEN Done(Log(b, <<Ev("noframes", 0)>>), FALSE)
                       ELSE IF loads THEN
                           /\ loop' = [at |-> "frame", s |-> b,
                                       argv |-> argv, res |-> res, ev |-> "none",
                                       polls |-> 0,
                                       player |-> [frame |-> 0, count |-> count]]
                           /\ UNCHANGED <<progVars, last>>
                       ELSE Done(restoreArchiveIf(argc = 3, resetCommand(b), res), TRUE)
       ELSE Done(Log(Cur, <<Ev("usage", 0)>>), TRUE)
    /\ UNCHANGED <<hostpc, redrawn, transport>>

\* A frame loop that does not look at the event it polls.
PlaySeqFrameDeaf ==
    /\ loop.at = "frame"
    /\ \E ev \in SeqEvents :
           LET drawn == Log(loop.s, <<Ev("draw", loop.player.frame)>>)
               n == nextFrame(loop.player)
           IN  loop' = IF n.ok
                       THEN [loop EXCEPT !.s = drawn, !.player = n.player, !.ev = ev,
                                         !.polls = @ + 1]
                       ELSE [loop EXCEPT !.at = "seqdone", !.s = drawn, !.ev = ev,
                                         !.polls = @ + 1]
    /\ UNCHANGED <<progVars, last, hostpc, redrawn, transport>>

\* One turn of the do-while: the frame is drawn, an event is polled, the
\* loop breaks on a right-button release and goes on while there is a frame.
PlaySeqFrame ==
    /\ loop.at = "frame"
    /\ \E ev \in SeqEvents :
           LET drawn == Log(loop.s, <<Ev("draw", loop.player.frame)>>)
               n == nextFrame(loop.player)
           IN  loop' = IF ev = "rbuttonup"
                       THEN [loop EXCEPT !.at = "seqdone", !.ev = ev, !.polls = @ + 1,
                                         !.s = Log(drawn, <<Ev("rclick", loop.polls + 1)>>)]
                       ELSE IF n.ok
                       THEN [loop EXCEPT !.s = drawn, !.player = n.player, !.ev = ev,
                                         !.polls = @ + 1]
                       ELSE [loop EXCEPT !.at = "seqdone", !.s = drawn, !.ev = ev,
                                         !.polls = @ + 1]
    /\ UNCHANGED <<progVars, last, hostpc, redrawn, transport>>

\* After the loop: resetCommand(), restoreArchive() when a volume was given,
\* and the handler returns.
PlaySeqLeave ==
    /\ loop.at = "seqdone"
    /\ Return(restoreArchiveIf(Len(loop.argv) = 3, resetCommand(loop.s), loop.res),
              "pump", "playseq", loop.argv, TRUE)
    /\ loop' = NoLoop
    /\ UNCHANGED <<hostpc, redrawn, transport>>

\* What one pollEvent() answers in the beetle game: the escape key going down,
\* another key, a mouse move, a button release that catches the beetle, one
\* that misses it.
BeetleEvents == {"escape", "keydown", "mousemove", "caught", "missed"}

\* The events that set playgame to false.
BeetleEnding == {"escape", "caught"}

\* The events the inner while finds queued in one turn.
Batches == UNION {[1..n -> BeetleEvents] : n \in 0..MaxBatch}

Ends(batch) == \E i \in DOMAIN batch : batch[i] \in BeetleEnding

\* The first event of the batch that ends the game.
FirstEnding(batch) ==
    batch[CHOOSE i \in DOMAIN batch :
              batch[i] \in BeetleEnding /\ \A j \in 1..(i - 1) : batch[j] \notin BeetleEnding]

Caught(batch) == \E i \in DOMAIN batch : batch[i] = "caught"

\* beetle typed at the console while no loop is running.
BeetleTyped ==
    /\ loop = NoLoop
    /\ Beetle

\* callCommand() with beetle as the stored command, up to the entry of the
\* game loop or to the return that comes before it: the archive of the game
\* does not load, and the command stays pending.
BeetleEnter ==
    /\ loop = NoLoop
    /\ ~aborted
    /\ command = "beetle"
    /\ LET argv == StoredArgs
           argc == Len(argv)
           Done(t, ret) == /\ Return(t, "pump", "beetle", argv, ret)
                           /\ loop' = loop
       IN
       IF argc = 1 THEN
           \E res \in Resolvers :
               LET a == loadArchive(Cur, kArchiveCd2, res)
                   b == Log(a.s, <<Ev("body", 0), Ev("clearBg", 0), Ev("redraw", 0)>>)
                   c == Log(beetleSetup(b), <<Ev("redraw", 0)>>)
               IN
               IF ~a.ok THEN Done(Log(a.s, <<Ev("loadfail", kArchiveCd2)>>), TRUE)
               ELSE IF ~hasCommand(a.s) THEN
                   Done(storeCommand(a.s, "beetle", argv, "ok"), FALSE)
               ELSE
                   /\ loop' = [at |-> "game", s |-> c, argv |-> argv, res |-> res,
                               previous |-> beetleSave(b), batch |-> <<>>]
                   /\ UNCHANGED <<progVars, last>>
       ELSE Done(Log(Cur, <<Ev("usage", 0)>>), TRUE)
    /\ UNCHANGED <<hostpc, redrawn, transport>>

\* A game loop that gives up when a turn finds no event.
BeetleTurnTimesOut ==
    /\ loop.at = "game"
    /\ \E batch \in Batches, l \in LocationValues :
           LET moved == IF Caught(batch) THEN [loop.s EXCEPT !.location = l] ELSE loop.s
           IN  loop' = IF Ends(batch) \/ batch = <<>>
                       THEN [loop EXCEPT !.at = "gamedone", !.batch = batch,
                                 !.s = Log(moved, <<Ev("game", moved.chapter),
                                                    Ev(IF Ends(batch) THEN FirstEnding(batch)
                                                       ELSE "timeout", moved.location)>>)]
                       ELSE [loop EXCEPT !.batch = batch]
    /\ UNCHANGED <<progVars, last, hostpc, redrawn, transport>>

\* One turn of while (playgame): the beetle is updated, the frame redrawn,
\* and every queued event is handled; the escape key and a catch clear
\* playgame, and the turn still handles the events queued behind them.
BeetleTurn ==
    /\ loop.at = "game"
    /\ \E batch \in Batches, l \in LocationValues :
           LET moved == IF Caught(batch) THEN [loop.s EXCEPT !.location = l] ELSE loop.s
           IN  loop' = IF Ends(batch)
                       THEN [loop EXCEPT !.at = "gamedone", !.batch = batch,
                                 !.s = Log(moved, <<Ev("game", moved.chapter),
                                                    Ev(FirstEnding(batch), moved.location)>>)]
                       ELSE [loop EXCEPT !.batch = batch]
    /\ UNCHANGED <<progVars, last, hostpc, redrawn, transport>>

\* After the game: the state is restored, then the archive, the scene is
\* drawn again and the command is cleared.
BeetleLeave ==
    /\ loop.at = "gamedone"
    /\ LET e == restoreArchive(beetleRestore(loop.s, loop.previous), loop.res)
           f == Log(e, <<Ev("stopAllSound", 0), Ev("clearBg", 0),
                         Ev("drawScene", loop.previous.scene), Ev("redraw", 0)>>)
       IN  Return(resetCommand(f), "pump", "beetle", loop.argv, TRUE)
    /\ loop' = NoLoop
    /\ UNCHANGED <<hostpc, redrawn, transport>>

NextLoops ==
    \/ PlaySeqTyped \/ PlaySeqEnter \/ PlaySeqFrame \/ PlaySeqLeave
    \/ BeetleTyped \/ BeetleEnter \/ BeetleTurn \/ BeetleLeave

\* A handler that is running goes on running: each loop takes its next turn,
\* and the code after either loop is executed. Nothing makes an event arrive.
SpecLoops ==
    /\ InitStage
    /\ [][NextLoops]_vars
    /\ WF_vars(PlaySeqFrame)
    /\ WF_vars(BeetleTurn)
    /\ WF_vars(PlaySeqLeave)
    /\ WF_vars(BeetleLeave)

\* The frames the step drew, in the order it drew them.
IsDraw(ev) == ev.e = "draw"
Draws(l) == SelectSeq(l.log, IsDraw)

(* C23: the frame loop of playseq, on a sequence of one frame or more,      *)
(* draws the frames in order from frame 0; it stops at the first polled     *)
(* right-button release and otherwise after the last frame; it always comes *)
(* to its end, and the handler then clears the pending command.             *)
C23_PlaySeqLoopEnds ==
    /\ [][/\ (loop.at = "frame" /\ loop'.ev = "rbuttonup") => loop'.at = "seqdone"
          /\ (loop.at = "frame" /\ loop'.at = "frame") =>
                 /\ loop'.ev # "rbuttonup"
                 /\ loop'.player.frame = loop.player.frame + 1
                 /\ loop'.player.frame < loop.player.count
          /\ (loop.at = "seqdone" /\ loop'.at = "idle") =>
                 LET n == Len(Draws(last'))
                 IN  /\ Draws(last') = [i \in 1..n |-> Ev("draw", i - 1)]
                     /\ n \in 1..loop.player.count
                     /\ IF loop.ev = "rbuttonup"
                        THEN Has(last', "rclick") /\ Val(last', "rclick") = n
                        ELSE ~Has(last', "rclick") /\ n = loop.player.count
                     /\ command' = "null"
                     /\ numParams' = 0]_vars
    /\ (loop.at = "frame") ~> (loop.at = "idle" /\ numParams = 0)

\* A sequence of three frames was played and interrupted at the second.
C23_Witness_InterruptedAtSecondFrame ==
    /\ loop = NoLoop
    /\ last.op = "pump"
    /\ last.cmd = "playseq"
    /\ Draws(last) = <<Ev("draw", 0), Ev("draw", 1)>>
    /\ Has(last, "rclick")
    /\ Val(last, "rclick") = 2
    /\ numParams = 0


(* C24: the game loop of beetle has no timeout. A turn leaves the loop only *)
(* when it polled the escape key going down or a button release that caught *)
(* the beetle; once that has happened the handler runs to its end and the   *)
(* pending command is cleared; and as long as no such event is polled the   *)
(* handler stays in the loop, for ever if none ever comes.                  *)
C24_BeetleLoopEndsOnlyOnEvent ==
    /\ [][/\ (loop.at = "game" /\ loop'.at # "game") =>
                 /\ loop'.at = "gamedone"
                 /\ Ends(loop'.batch)
          /\ (loop.at = "game" /\ loop' # loop /\ ~Ends(loop'.batch)) => loop'.at = "game"
          /\ (loop.at = "game" /\ loop' # loop) => UNCHANGED <<progVars, last>>]_vars
    /\ (loop.at = "gamedone") ~> (loop.at = "idle" /\ numParams = 0)
    /\ [](loop.at = "game" => ([](loop.at = "game") \/ <>(loop.at = "gamedone" /\ Ends(loop.batch))))

\* The game ended on a catch and the handler has returned with the command
\* cleared.
C24_Witness_CaughtAndReturned ==
    /\ loop = NoLoop
    /\ last.op = "pump"
    /\ last.cmd = "beetle"
    /\ Has(last, "caught")
    /\ Has(last, "reset")
    /\ numParams = 0
    /\ command = "null"

---------------------------------------------------------------------------
(* A deferrable command typed while another command is pending.             *)

(* C25: a deferrable command dispatched while a command is pending is not   *)
(* stored; when its handler reaches its test of hasCommand() it takes the   *)
(* second-phase branch at once, with the arguments just typed, and when it  *)
(* returns the command that was pending is gone: the slot is empty.         *)
C25_TypedWhilePendingDiscards ==
    [][(last'.op = "dispatch" /\ last'.cmd \in Deferrable /\ numParams # 0) =>
          /\ ~Has(last', "store")
          /\ RanBody(last') =>
                 /\ Has(last', "reset")
                 /\ command' = "null"
                 /\ numParams' = 0
                 /\ commandParams' = <<>>]_vars

---------------------------------------------------------------------------
(* The scene data and the mounted volume.                                   *)

(* C26: a loadArchive() or restoreArchive() called while the scene data     *)
(* loaded is that of the mounted volume leaves it so, whether the resolver  *)
(* opened the volume asked for or not.                                      *)
C26_SceneDataFollowsMount ==
    [][(last'.op \in {"loadArchive", "restoreArchive"} /\ sceneData = mounted)
           => sceneData' = mounted']_vars

---------------------------------------------------------------------------
(* The strings copyCommand() allocated and the strings resetCommand() frees. *)

(* C27: when callCommand() runs a stored command to the resetCommand() that *)
(* ends its second phase, that resetCommand() frees every string that       *)
(* copyCommand() allocated for it: as many strings as are stored, for every *)
(* deferrable command.                                                      *)
C27_ResetFreesEveryString ==
    [][(last'.op = "pump" /\ RanBody(last') /\ Has(last', "reset") /\ numParams # 0)
           => Val(last', "reset") = Len(commandParams)]_vars

---------------------------------------------------------------------------
(* The beetle command: the chapter is put back before the archive.          *)

(* C28: after the second phase of beetle the mounted volume is the default  *)
(* volume of the chapter that was current before the command, not that of   *)
(* chapter 2, which the command staged.                                     *)
C28_BeetleLeavesPreviousChapterVolume ==
    [][(last'.cmd = "beetle" /\ RanBody(last')) => mounted' = RestoreIndex(chapter)]_vars

=============================================================================
